---------------------------- MODULE Spec2Model ----------------------------
(***************************************************************************)
(* A model of the block-list allocator front-end of src/src/alloc.rs       *)
(* (Vitalloc: GlobalAlloc::alloc / GlobalAlloc::dealloc), of the backing   *)
(* allocator it drives (the three-slot MockAlloc of its test module) and   *)
(* of the heap block it allocates from.  The heap block (mod hole) is not  *)
(* part of the sources at hand: HeapBlock_new and allocate_first_fit are   *)
(* modelled from section 4.1 of the specification.  A second part models   *)
(* the Mutex of src/src/mutex.rs over the kernel's mutexes (MutexSpec).    *)
(***************************************************************************)
EXTENDS Integers, Sequences, FiniteSets, TLC

(***************************************************************************)
(* Configuration: Vitalloc<MockAlloc, U4096, U4096, U2048, U4096>.         *)
(***************************************************************************)
BS == 4096
BA == 4096
LS == 2048
LA == 4096

\* MockAlloc: allocated: [bool; 3], blocks: [[u8; 4096]; 3].
NumSlots == 3
SlotSize == 4096

\* mod hole: HeapBlock::min_size(), align_of::<Hole>() and the room the
\* block's own header (sentinel hole and chain link) takes at its base.
MinSize == 16
HoleAlign == 8
HeaderSize == 32

\* The model's bounds: calling threads and calls made in one behaviour.
NumThreads == 2
MaxOps == 4

Null == 0
Threads == 1..NumThreads
Slots == 1..NumSlots

\* The layouts the callers draw from: small ones, the two sizes next to
\* the threshold, large ones, and alignments above BA and LA.
Layouts ==
    { [size |-> 32,     align |-> 8],
      [size |-> LS - 1, align |-> 2048],
      [size |-> 32,     align |-> 2 * BA],
      [size |-> LS,     align |-> 8],
      [size |-> 3129,   align |-> 4096],
      [size |-> 3129,   align |-> 2 * LA] }

VARIABLES
    allocated,    \* MockAlloc.allocated: slot -> in use
    first_block,  \* the chain of heap blocks, head first
    mutex,        \* Vitalloc.mutex: TRUE while locked
    pc,           \* thread -> "idle" | "lock" | "cs" | "grow"
    req,          \* thread -> the call it is in, with its locals
    live,         \* allocations returned by alloc and not yet deallocated
    last,         \* the call that completed last, with the backing calls it made
    nops          \* calls made so far

\* src/src/mutex.rs: one Mutex, the kernel's table of mutexes, and the
\* threads that call lock(), try_lock() and drop their guards.
VARIABLES
    init,         \* Mutex.init: the lock initialization has started
    done,         \* Mutex.done: the lock initialization has finished
    lock,         \* Mutex.lock: the SceUID the Mutex passes to the kernel
    kernel,       \* the kernel: the mutexes it has created and their owners
    kpc,          \* thread -> "idle" | "cas" | "create" | "store" | "wait"
                  \*           | "call" | "held" | "gone"
    kreq,         \* thread -> "none" | "lock" | "try_lock"
    guard,        \* thread -> the SceUID init_lock returned (MutexGuard.lock)
    klast,        \* the last call made to the kernel
    creators      \* the threads that have called sceKernelCreateMutex

\* src/src/utils.rs and Vitalloc::padded, called on their own.
VARIABLES
    ucall         \* the last such call: the function, its arguments, its result

avars == <<allocated, first_block, mutex, pc, req, live, last, nops>>

kvars == <<init, done, lock, kernel, kpc, kreq, guard, klast, creators>>

vars == <<allocated, first_block, mutex, pc, req, live, last, nops,
          init, done, lock, kernel, kpc, kreq, guard, klast, creators,
          ucall>>

(***************************************************************************)
(* src/src/utils.rs                                                        *)
(***************************************************************************)
\* usize::is_power_of_two, for the addresses of the model (below 2^WordBits).
WordBits == 16
is_power_of_two(n) == \E k \in 0..(WordBits - 1) : n = 2 ^ k

\* usize: unsigned words of WordBits bits.  A sum or difference that leaves
\* the word wraps around (in a build with overflow checks it panics instead).
Word == 2 ^ WordBits

wrapping_add(a, b) == (a + b) % Word

wrapping_sub(a, b) == (a + Word - b) % Word

\* addr & !(align - 1) for a power of two; addr for 0 (any other align panics).
align_down(addr, align) ==
    IF is_power_of_two(align) THEN addr - (addr % align) ELSE addr

\* A variant of align_up that rounds addr + align down.
align_up_next(addr, align) == align_down(wrapping_add(addr, align), align)

\* align_down(addr + align - 1, align)
align_up(addr, align) ==
    align_down(wrapping_sub(wrapping_add(addr, align), 1), align)

\* size_of::<usize>() on the target of mutex.rs (the kernel of psp2_sys).
UsizeBytes == 4

\* write_hex: the byte written for number & 0xF: x + b'0' up to 9, y + b'A'
\* from 0xA on.
hex_byte(number) ==
    IF number % 16 <= 9 THEN (number % 16) + 48 ELSE (number % 16) + 65

\* write_hex: for i in 0..size_of::<usize>() / 4, the byte of number & 0xF is
\* stored in buf[buf.len() - (i + 2)]; number is the same in every round.
\* buf is a sequence, its first byte at index 1.
write_hex(number, buf) ==
    [j \in 1..Len(buf) |->
        IF \E i \in 0..((UsizeBytes \div 4) - 1) : j = (Len(buf) - (i + 2)) + 1
        THEN hex_byte(number)
        ELSE buf[j]]

Max(a, b) == IF a >= b THEN a ELSE b

(***************************************************************************)
(* The backing allocator: MockAlloc's slots, handed out lowest first, with *)
(* the Alloc contract honoured (a region of at least layout.size bytes,    *)
(* aligned to layout.align).                                               *)
(***************************************************************************)
SlotBase(i) == i * SlotSize

SlotsNeeded(size) == Max(1, (size + SlotSize - 1) \div SlotSize)

SlotRun(i, size) == i..(i + SlotsNeeded(size) - 1)

FreeRuns(al, layout) ==
    { i \in Slots : /\ SlotRun(i, layout.size) \subseteq Slots
                    /\ \A j \in SlotRun(i, layout.size) : ~al[j]
                    /\ SlotBase(i) % layout.align = 0 }

SetMin(S) == CHOOSE x \in S : \A y \in S : x <= y

\* Result of MockAlloc::alloc: the pointer (Null for Err) and the new slots.
MockAlloc_alloc(al, layout) ==
    IF FreeRuns(al, layout) = {}
    THEN [ptr |-> Null, allocated |-> al]
    ELSE CHOOSE r \in
            { [ptr |-> SlotBase(i),
               allocated |-> [j \in Slots |->
                                IF j \in SlotRun(i, layout.size) THEN TRUE ELSE al[j]]] :
                 i \in {SetMin(FreeRuns(al, layout))} } : TRUE

\* MockAlloc::dealloc: the slots of the region at ptr are free again.
MockAlloc_dealloc(al, ptr, layout) ==
    [j \in Slots |->
        IF \E i \in Slots : SlotBase(i) = ptr /\ j \in SlotRun(i, layout.size)
        THEN FALSE ELSE al[j]]

(***************************************************************************)
(* mod hole (section 4.1 of the specification).  A heap block is its base  *)
(* and its hole list, a sequence of [addr, size] in address order.         *)
(***************************************************************************)
HeapBlock_new(base) ==
    [base  |-> base,
     holes |-> <<[addr |-> base + HeaderSize, size |-> BS - HeaderSize]>>]

Aligned(h, layout) == align_up(h.addr, layout.align)

FrontPadding(h, layout) == Aligned(h, layout) - h.addr

BackPadding(h, layout) == (h.addr + h.size) - (Aligned(h, layout) + layout.size)

\* A hole fits when the aligned region lies in it and what is left before and
\* after the region is nothing or can hold a hole descriptor.
Fits(h, layout) ==
    /\ Aligned(h, layout) + layout.size <= h.addr + h.size
    /\ FrontPadding(h, layout) = 0 \/ FrontPadding(h, layout) >= MinSize
    /\ BackPadding(h, layout) = 0 \/ BackPadding(h, layout) >= MinSize

\* Index of the first hole that fits, 0 when none does.
FirstFit(holes, layout) ==
    IF \E i \in 1..Len(holes) : Fits(holes[i], layout)
    THEN CHOOSE i \in 1..Len(holes) :
            /\ Fits(holes[i], layout)
            /\ \A j \in 1..(i - 1) : ~Fits(holes[j], layout)
    ELSE 0

\* The holes that replace hole h once the region is taken out of it.
Split(h, layout) ==
    (IF FrontPadding(h, layout) > 0
     THEN <<[addr |-> h.addr, size |-> FrontPadding(h, layout)]>> ELSE <<>>)
    \o
    (IF BackPadding(h, layout) > 0
     THEN <<[addr |-> Aligned(h, layout) + layout.size,
             size |-> BackPadding(h, layout)]>> ELSE <<>>)

\* The region taken out of hole i of the block (no hole when i = 0).
TakeHole(block, layout, i) ==
    IF i = 0
    THEN [ok |-> FALSE, ptr |-> Null, holes |-> block.holes]
    ELSE [ok    |-> TRUE,
          ptr   |-> Aligned(block.holes[i], layout),
          holes |-> SubSeq(block.holes, 1, i - 1)
                    \o Split(block.holes[i], layout)
                    \o SubSeq(block.holes, i + 1, Len(block.holes))]

\* Result of HeapBlock::allocate_first_fit: ok, the pointer, the new hole list.
allocate_first_fit(block, layout) ==
    CHOOSE r \in { TakeHole(block, layout, i) :
                      i \in {FirstFit(block.holes, layout)} } : TRUE

\* The hole list with hole h put at its place in address order.
InsertHole(holes, h) ==
    CHOOSE r \in
        { SubSeq(holes, 1, k) \o <<h>> \o SubSeq(holes, k + 1, Len(holes)) :
             k \in {Cardinality({ i \in 1..Len(holes) : holes[i].addr < h.addr })} } :
        TRUE

\* The hole list with holes i and i + 1 made one hole when hole i ends where
\* hole i + 1 begins.
MergeAt(holes, i) ==
    IF /\ i >= 1 /\ i < Len(holes)
       /\ holes[i].addr + holes[i].size = holes[i + 1].addr
    THEN SubSeq(holes, 1, i - 1)
         \o <<[addr |-> holes[i].addr,
                size |-> holes[i].size + holes[i + 1].size]>>
         \o SubSeq(holes, i + 2, Len(holes))
    ELSE holes

\* A variant of deallocate that inserts the freed extent and merges nothing.
deallocate_unmerged(holes, ptr, size) ==
    InsertHole(holes, [addr |-> ptr, size |-> size])

\* HeapBlock::deallocate: insert a hole of the freed extent at its place, then
\* coalesce it with its successor and with its predecessor when adjacent.
deallocate(holes, ptr, size) ==
    CHOOSE r \in
        { MergeAt(MergeAt(InsertHole(holes, [addr |-> ptr, size |-> size]), k + 1), k) :
             k \in {Cardinality({ i \in 1..Len(holes) : holes[i].addr < ptr })} } :
        TRUE

(***************************************************************************)
(* src/src/alloc.rs: Vitalloc                                              *)
(***************************************************************************)
\* core::alloc::Layout::padding_needed_for: the size rounded up to align,
\* less the size, both in wrapping arithmetic.
padding_needed_for(layout, align) ==
    wrapping_sub(align_up(layout.size, align), layout.size)

\* Vitalloc::padded: layout.size + layout.padding_needed_for(align), align.
padded(layout, align) ==
    [size  |-> wrapping_add(layout.size, padding_needed_for(layout, align)),
     align |-> align]

\* A variant of AllocIsLarge that takes the block size for the threshold.
AllocIsLargeBlockSize(layout) == layout.size >= BS

\* A variant of AllocIsLarge with the comparison of dealloc: a request of
\* size LS goes to the heap blocks.
AllocIsLargeStrict(layout) == layout.size > LS

\* alloc: if layout.size() >= LS::to_usize()
AllocIsLarge(layout) == layout.size >= LS

\* dealloc: if layout.size() > LS::to_usize()
DeallocIsLarge(layout) == layout.size > LS

\* A variant of block_layout that takes the smaller of min_size() and the
\* requested size.
block_layout_min(layout) ==
    [size  |-> align_up(IF layout.size <= MinSize THEN layout.size ELSE MinSize,
                        HoleAlign),
     align |-> layout.align]

\* alloc: "Pad the layout to the minimum legal size".
block_layout(layout) ==
    [size  |-> align_up(Max(MinSize, layout.size), HoleAlign),
     align |-> layout.align]

\* A variant of new_heap_layout that grows the heap by the caller's own
\* (normalised) layout.
new_heap_layout_user(layout) == block_layout(layout)

\* alloc: the layout of a new heap block, whatever the caller's layout.
new_heap_layout(layout) == [size |-> BS, align |-> BA]

\* A variant of Walk that serves the request from the last block of the
\* chain that fits instead of the first one.
Walk_last(chain, layout) ==
    IF \E i \in 1..Len(chain) : FirstFit(chain[i].holes, layout) # 0
    THEN CHOOSE i \in 1..Len(chain) :
            /\ FirstFit(chain[i].holes, layout) # 0
            /\ \A j \in (i + 1)..Len(chain) : FirstFit(chain[j].holes, layout) = 0
    ELSE 0

\* alloc: the walk over the chain; the index of the first block whose
\* allocate_first_fit succeeds, 0 when the walk reaches the end.
Walk(chain, layout) ==
    IF \E i \in 1..Len(chain) : FirstFit(chain[i].holes, layout) # 0
    THEN CHOOSE i \in 1..Len(chain) :
            /\ FirstFit(chain[i].holes, layout) # 0
            /\ \A j \in 1..(i - 1) : FirstFit(chain[j].holes, layout) = 0
    ELSE 0

\* A variant of link_block that links the new block in front of the chain.
link_block_front(chain, nb, block) == <<block>> \o chain

\* A variant of link_block that stores the new block in the head of the chain.
link_block_head(chain, nb, block) == <<block>>

\* alloc: *next_block = Some(new_block), next_block being the link the walk
\* stopped at (the one after the first nb blocks).
link_block(chain, nb, block) == SubSeq(chain, 1, nb) \o <<block>>

\* A variant of dealloc_small that unlinks every block left without a live
\* allocation, the last block of the chain included.
dealloc_small_reclaim(chain, lv) ==
    SelectSeq(chain, LAMBDA b : \E a \in lv : b.base <= a.ptr /\ a.ptr < b.base + BS)

\* dealloc, the branch for size <= LS: "// TODO".  The chain after the call,
\* given the chain before it and the allocations that stay live.
dealloc_small(chain, lv) == chain

\* A variant of TryLock that takes the lock whatever its state.
TryLockAlways(m) == TRUE

\* self.mutex.lock(): the lock is taken when it is found free.
TryLock(m) == m = FALSE

\* A variant of DropGuard that unlocks only where the code writes drop(lock):
\* at the end of alloc and of dealloc, not on the early returns.
DropGuardAtEnd(exit) == exit \in {"end", "dealloc"}

\* The guard `lock` goes out of scope on every return of alloc and dealloc.
DropGuard(exit) == TRUE

\* A variant of alloc_err that hands out a sentinel address instead of null
\* (the source keeps such a return commented out next to the one it uses).
alloc_err_sentinel(layout) == 57005

\* alloc, growing the heap: Err(_) => return ::core::ptr::null_mut::<u8>()
alloc_err(layout) == Null

NoLayout == [size |-> 0, align |-> 1]

\* A returned allocation: the pointer, the caller's layout, the path alloc
\* took, the layout alloc passed to the backing allocator on the large path,
\* and a name that tells it from the other live allocations.
NoAlloc ==
    [id |-> 0, ptr |-> Null, size |-> 0, align |-> 1, large |-> FALSE,
     bsize |-> 0, balign |-> 1]

\* A call in progress: the operation, its layout, the allocation a dealloc
\* frees, the length of the chain its walk found, and, for a call made from
\* inside the backing allocator, the place the outer call had reached.
NoReq ==
    [op |-> "none", layout |-> NoLayout, a |-> NoAlloc, nb |-> 0,
     outer |-> "none"]

NoLast ==
    [op |-> "none", layout |-> NoLayout, ptr |-> Null, large |-> FALSE,
     a |-> NoAlloc, exit |-> "none", bcalls |-> <<>>]

BCall(op, layout, ptr) ==
    [op |-> op, size |-> layout.size, align |-> layout.align, ptr |-> ptr]

\* The identifiers the kernel may give to the mutexes it creates.
KUids == 1..NumThreads

NoKCall == [op |-> "none", uid |-> 0]

\* Mutex::new, a kernel that has created no mutex yet, and no thread in a
\* call of the Mutex.
Mutex_new ==
    /\ init = FALSE
    /\ done = FALSE
    /\ lock = 0
    /\ kernel = [made |-> {}, owner |-> [u \in KUids |-> 0]]
    /\ kpc = [t \in Threads |-> "idle"]
    /\ kreq = [t \in Threads |-> "none"]
    /\ guard = [t \in Threads |-> 0]
    /\ klast = NoKCall
    /\ creators = {}

NoUCall == [fn |-> "none", a |-> 0, k |-> 1, out |-> 0, name |-> <<>>]

Init ==
    /\ allocated = [i \in Slots |-> FALSE]
    /\ first_block = <<>>
    /\ mutex = FALSE
    /\ pc = [t \in Threads |-> "idle"]
    /\ req = [t \in Threads |-> NoReq]
    /\ live = {}
    /\ last = NoLast
    /\ nops = 0
    /\ Mutex_new
    /\ ucall = NoUCall

\* A thread calls alloc(layout).
CallAlloc(t, layout) ==
    /\ pc[t] = "idle"
    /\ nops < MaxOps
    /\ pc' = [pc EXCEPT ![t] = "lock"]
    /\ req' = [req EXCEPT ![t] = [NoReq EXCEPT !.op = "alloc", !.layout = layout]]
    /\ nops' = nops + 1
    /\ UNCHANGED <<allocated, first_block, mutex, live, last>>
    /\ UNCHANGED <<kvars, ucall>>

\* A thread calls dealloc(ptr, layout) on a live allocation, with the layout
\* it was allocated with, and no other thread is deallocating it.
CallDealloc(t, a) ==
    /\ pc[t] = "idle"
    /\ nops < MaxOps
    /\ a \in live
    /\ \A u \in Threads : req[u].a # a
    /\ pc' = [pc EXCEPT ![t] = "lock"]
    /\ req' = [req EXCEPT ![t] =
                 [NoReq EXCEPT !.op = "dealloc",
                               !.layout = [size |-> a.size, align |-> a.align],
                               !.a = a]]
    /\ nops' = nops + 1
    /\ UNCHANGED <<allocated, first_block, mutex, live, last>>
    /\ UNCHANGED <<kvars, ucall>>

\* let lock = self.mutex.lock();
Acquire(t) ==
    /\ pc[t] = "lock"
    /\ TryLock(mutex)
    /\ mutex' = TRUE
    /\ pc' = [pc EXCEPT ![t] = "cs"]
    /\ UNCHANGED <<allocated, first_block, req, live, last, nops>>
    /\ UNCHANGED <<kvars, ucall>>

\* A return from alloc or dealloc by thread t through the given exit.
Return(t, exit) ==
    /\ mutex' = IF DropGuard(exit) THEN FALSE ELSE mutex
    /\ pc' = [pc EXCEPT ![t] = "idle"]
    /\ req' = [req EXCEPT ![t] = NoReq]
    /\ UNCHANGED <<kvars, ucall>>

NewId == SetMin((1..(Cardinality(live) + 1)) \ { a.id : a \in live })

Allocation(ptr, layout, large, bl) ==
    [id |-> NewId, ptr |-> ptr, size |-> layout.size, align |-> layout.align,
     large |-> large, bsize |-> bl.size, balign |-> bl.align]

\* alloc, large path: forward the padded layout to the backing allocator.
AllocLarge(t) ==
    /\ pc[t] = "cs"
    /\ req[t].op = "alloc"
    /\ AllocIsLarge(req[t].layout)
    /\ \E pl \in {padded(req[t].layout, LA)} :
       \E r \in {MockAlloc_alloc(allocated, pl)} :
       \E a \in {IF r.ptr = Null THEN NoAlloc
                 ELSE Allocation(r.ptr, req[t].layout, TRUE, pl)} :
          /\ allocated' = r.allocated
          /\ live' = IF r.ptr = Null THEN live ELSE live \cup {a}
          /\ last' = [op |-> "alloc", layout |-> req[t].layout, ptr |-> r.ptr,
                      large |-> TRUE, a |-> a, exit |-> "large",
                      bcalls |-> <<BCall("alloc", pl, r.ptr)>>]
    /\ Return(t, "large")
    /\ UNCHANGED <<first_block, nops>>

\* alloc, small path: a block of the chain has a hole that fits.
AllocFit(t) ==
    /\ pc[t] = "cs"
    /\ req[t].op = "alloc"
    /\ ~AllocIsLarge(req[t].layout)
    /\ \E bl \in {block_layout(req[t].layout)} :
       \E i \in {Walk(first_block, bl)} :
          /\ i # 0
          /\ \E r \in {allocate_first_fit(first_block[i], bl)} :
             \E a \in {Allocation(r.ptr, req[t].layout, FALSE, NoLayout)} :
                /\ first_block' = [first_block EXCEPT ![i].holes = r.holes]
                /\ live' = live \cup {a}
                /\ last' = [op |-> "alloc", layout |-> req[t].layout,
                            ptr |-> r.ptr, large |-> FALSE, a |-> a,
                            exit |-> "fit", bcalls |-> <<>>]
    /\ Return(t, "fit")
    /\ UNCHANGED <<allocated, nops>>

\* alloc, small path: the walk ends with next_block at the end of the chain.
AllocNoFit(t) ==
    /\ pc[t] = "cs"
    /\ req[t].op = "alloc"
    /\ ~AllocIsLarge(req[t].layout)
    /\ \E bl \in {block_layout(req[t].layout)} : Walk(first_block, bl) = 0
    /\ pc' = [pc EXCEPT ![t] = "grow"]
    /\ req' = [req EXCEPT ![t].nb = Len(first_block)]
    /\ UNCHANGED <<allocated, first_block, mutex, live, last, nops>>
    /\ UNCHANGED <<kvars, ucall>>

\* alloc, small path: the backing allocator has no new block to give.
AllocGrowBackingFail(t) ==
    /\ pc[t] = "grow"
    /\ \E nl \in {new_heap_layout(req[t].layout)} :
       \E r \in {MockAlloc_alloc(allocated, nl)} :
          /\ r.ptr = Null
          /\ last' = [op |-> "alloc", layout |-> req[t].layout,
                      ptr |-> alloc_err(req[t].layout),
                      large |-> FALSE, a |-> NoAlloc, exit |-> "backing_fail",
                      bcalls |-> <<BCall("alloc", nl, Null)>>]
    /\ Return(t, "backing_fail")
    /\ UNCHANGED <<allocated, first_block, live, nops>>

\* alloc, small path: the new block cannot hold the request; null is returned
\* and the block is neither linked nor given back.
AllocGrowFreshFail(t) ==
    /\ pc[t] = "grow"
    /\ \E nl \in {new_heap_layout(req[t].layout)} :
       \E r \in {MockAlloc_alloc(allocated, nl)} :
          /\ r.ptr # Null
          /\ \E bl \in {block_layout(req[t].layout)} :
             \E f \in {allocate_first_fit(HeapBlock_new(r.ptr), bl)} : ~f.ok
          /\ allocated' = r.allocated
          /\ last' = [op |-> "alloc", layout |-> req[t].layout, ptr |-> Null,
                      large |-> FALSE, a |-> NoAlloc, exit |-> "fresh_fail",
                      bcalls |-> <<BCall("alloc", nl, r.ptr)>>]
    /\ Return(t, "fresh_fail")
    /\ UNCHANGED <<first_block, live, nops>>

\* alloc, small path: the new block serves the request and is linked where
\* the walk ended (*next_block = Some(new_block)).
AllocGrow(t) ==
    /\ pc[t] = "grow"
    /\ \E nl \in {new_heap_layout(req[t].layout)} :
       \E r \in {MockAlloc_alloc(allocated, nl)} :
          /\ r.ptr # Null
          /\ \E bl \in {block_layout(req[t].layout)} :
             \E f \in {allocate_first_fit(HeapBlock_new(r.ptr), bl)} :
             \E a \in {Allocation(f.ptr, req[t].layout, FALSE, NoLayout)} :
                /\ f.ok
                /\ allocated' = r.allocated
                /\ first_block' = link_block(first_block, req[t].nb,
                                             [base |-> r.ptr, holes |-> f.holes])
                /\ live' = live \cup {a}
                /\ last' = [op |-> "alloc", layout |-> req[t].layout,
                            ptr |-> f.ptr, large |-> FALSE, a |-> a,
                            exit |-> "end",
                            bcalls |-> <<BCall("alloc", nl, r.ptr)>>]
    /\ Return(t, "end")
    /\ UNCHANGED nops

\* dealloc, large path: forward to the backing allocator with the padded layout.
DeallocLarge(t) ==
    /\ pc[t] = "cs"
    /\ req[t].op = "dealloc"
    /\ DeallocIsLarge(req[t].layout)
    /\ LET layout == req[t].layout
           pl == padded(layout, LA)
       IN  /\ allocated' = MockAlloc_dealloc(allocated, req[t].a.ptr, pl)
           /\ last' = [op |-> "dealloc", layout |-> layout, ptr |-> req[t].a.ptr,
                       large |-> TRUE, a |-> req[t].a, exit |-> "dealloc",
                       bcalls |-> <<BCall("dealloc", pl, req[t].a.ptr)>>]
    /\ live' = live \ {req[t].a}
    /\ Return(t, "dealloc")
    /\ UNCHANGED <<first_block, nops>>

\* dealloc, the other branch: "// TODO", nothing is done.
DeallocSmall(t) ==
    /\ pc[t] = "cs"
    /\ req[t].op = "dealloc"
    /\ ~DeallocIsLarge(req[t].layout)
    /\ last' = [op |-> "dealloc", layout |-> req[t].layout, ptr |-> req[t].a.ptr,
                large |-> FALSE, a |-> req[t].a, exit |-> "dealloc",
                bcalls |-> <<>>]
    /\ live' = live \ {req[t].a}
    /\ first_block' = dealloc_small(first_block, live \ {req[t].a})
    /\ Return(t, "dealloc")
    /\ UNCHANGED <<allocated, nops>>

\* The steps of a call once it holds the lock.
Body(t) ==
    \/ AllocLarge(t)
    \/ AllocFit(t)
    \/ AllocNoFit(t)
    \/ AllocGrowBackingFail(t)
    \/ AllocGrowFreshFail(t)
    \/ AllocGrow(t)
    \/ DeallocLarge(t)
    \/ DeallocSmall(t)

Next ==
    \E t \in Threads :
        \/ \E layout \in Layouts : CallAlloc(t, layout)
        \/ \E a \in live : CallDealloc(t, a)
        \/ Acquire(t)
        \/ Body(t)

Spec == Init /\ [][Next]_vars

\* The same program with callers that draw from fewer layouts: one for each
\* way out of alloc (a small one, one no fresh block can align, a large one).
FairLayouts ==
    { [size |-> 32,   align |-> 8],
      [size |-> 32,   align |-> 2 * BA],
      [size |-> 3129, align |-> 4096] }

FairNext ==
    \E t \in Threads :
        \/ \E layout \in FairLayouts : CallAlloc(t, layout)
        \/ \E a \in live : CallDealloc(t, a)
        \/ Acquire(t)
        \/ Body(t)

\* Scheduling: a thread that holds the lock keeps running, and a thread
\* spinning in lock() takes the lock if it is free again and again.
Fairness == \A t \in Threads : WF_vars(Body(t)) /\ SF_vars(Acquire(t))

FairSpec == Init /\ [][FairNext]_vars /\ Fairness

\* The thread is about to call the backing allocator (allocator.alloc on the
\* large path or for a new block, allocator.dealloc on the large path).
AtBackingCall(t) ==
    \/ pc[t] = "grow"
    \/ pc[t] = "cs" /\ req[t].op = "alloc" /\ AllocIsLarge(req[t].layout)
    \/ pc[t] = "cs" /\ req[t].op = "dealloc" /\ DeallocIsLarge(req[t].layout)

\* A backing allocator that allocates through this allocator: called by
\* thread t, it calls alloc or dealloc of the front-end on the same thread,
\* and that call starts with self.mutex.lock().
Reenter(t) ==
    /\ AtBackingCall(t)
    /\ pc' = [pc EXCEPT ![t] = "lock"]
    /\ req' = [req EXCEPT ![t].outer = pc[t]]
    /\ UNCHANGED <<allocated, first_block, mutex, live, last, nops>>
    /\ UNCHANGED <<kvars, ucall>>

ReentrantNext ==
    \E t \in Threads :
        \/ \E layout \in FairLayouts : CallAlloc(t, layout)
        \/ \E a \in live : CallDealloc(t, a)
        \/ Acquire(t)
        \/ Body(t)
        \/ Reenter(t)

ReentrantSpec == Init /\ [][ReentrantNext]_vars

\* The same program with callers whose layouts fill a block in two requests,
\* so that a later request finds the head full and a later block with room.
WalkLayouts == FairLayouts \cup { [size |-> 1536, align |-> 8] }

WalkNext ==
    \E t \in Threads :
        \/ \E layout \in WalkLayouts : CallAlloc(t, layout)
        \/ \E a \in live : CallDealloc(t, a)
        \/ Acquire(t)
        \/ Body(t)

WalkSpec == Init /\ [][WalkNext]_vars

(***************************************************************************)
(* src/src/mutex.rs: Mutex over the kernel's mutexes.  The kernel knows    *)
(* the mutexes it has created; a call that names any other identifier      *)
(* returns an error and does nothing else.                                 *)
(***************************************************************************)
\* init_lock: self.init.compare_and_swap(false, true, Acquire) == false
cas_wins(i) == i = FALSE

\* A variant of done_observed that does not wait for done.
done_ignored(d) == TRUE

\* init_lock: the exit of `while !self.done.load(Relaxed)`.
done_observed(d) == d

\* A thread calls lock().
Mutex_lock(t) ==
    /\ kpc[t] = "idle"
    /\ kpc' = [kpc EXCEPT ![t] = "cas"]
    /\ kreq' = [kreq EXCEPT ![t] = "lock"]
    /\ UNCHANGED <<init, done, lock, kernel, guard, klast, creators>>
    /\ UNCHANGED <<avars, ucall>>

\* A thread calls try_lock().
Mutex_try_lock(t) ==
    /\ kpc[t] = "idle"
    /\ kpc' = [kpc EXCEPT ![t] = "cas"]
    /\ kreq' = [kreq EXCEPT ![t] = "try_lock"]
    /\ UNCHANGED <<init, done, lock, kernel, guard, klast, creators>>
    /\ UNCHANGED <<avars, ucall>>

\* init_lock: the compare-and-swap on init; the thread that flips it goes on
\* to create the kernel mutex, the others wait for done.
init_lock_cas(t) ==
    /\ kpc[t] = "cas"
    /\ IF cas_wins(init)
       THEN init' = TRUE /\ kpc' = [kpc EXCEPT ![t] = "create"]
       ELSE init' = init /\ kpc' = [kpc EXCEPT ![t] = "wait"]
    /\ UNCHANGED <<done, lock, kernel, kreq, guard, klast, creators>>
    /\ UNCHANGED <<avars, ucall>>

\* init_lock: unsafe { sceKernelCreateMutex(..) }; the kernel creates a mutex
\* under an identifier of its choice and returns it (an error when it has
\* none left); the statement drops the value returned.
init_lock_create(t) ==
    /\ kpc[t] = "create"
    /\ \E u \in (IF KUids \subseteq kernel.made THEN {-1} ELSE KUids \ kernel.made) :
          /\ kernel' = IF u \in KUids
                       THEN [kernel EXCEPT !.made = @ \cup {u}]
                       ELSE kernel
          /\ klast' = [op |-> "create", uid |-> u]
    /\ creators' = creators \cup {t}
    /\ kpc' = [kpc EXCEPT ![t] = "store"]
    /\ UNCHANGED <<init, done, lock, kreq, guard>>
    /\ UNCHANGED <<avars, ucall>>

\* init_lock: self.done.store(true, Relaxed), then the return of self.lock.
init_lock_store(t) ==
    /\ kpc[t] = "store"
    /\ done' = TRUE
    /\ guard' = [guard EXCEPT ![t] = lock]
    /\ kpc' = [kpc EXCEPT ![t] = "call"]
    /\ UNCHANGED <<init, lock, kernel, kreq, klast, creators>>
    /\ UNCHANGED <<avars, ucall>>

\* init_lock: the waiting loop ends when done is read true, then the return
\* of self.lock.
init_lock_wait(t) ==
    /\ kpc[t] = "wait"
    /\ done_observed(done)
    /\ guard' = [guard EXCEPT ![t] = lock]
    /\ kpc' = [kpc EXCEPT ![t] = "call"]
    /\ UNCHANGED <<init, done, lock, kernel, kreq, klast, creators>>
    /\ UNCHANGED <<avars, ucall>>

\* lock: unsafe { sceKernelLockMutex(lock, 1, null) }, its result unread,
\* then the guard.  The kernel blocks the caller while the mutex is owned.
Mutex_lock_call(t) ==
    /\ kpc[t] = "call"
    /\ kreq[t] = "lock"
    /\ IF guard[t] \in kernel.made
       THEN /\ kernel.owner[guard[t]] = 0
            /\ kernel' = [kernel EXCEPT !.owner[guard[t]] = t]
       ELSE kernel' = kernel
    /\ klast' = [op |-> "lock", uid |-> guard[t]]
    /\ kpc' = [kpc EXCEPT ![t] = "held"]
    /\ UNCHANGED <<init, done, lock, kreq, guard, creators>>
    /\ UNCHANGED <<avars, ucall>>

\* try_lock: if sceKernelTryLockMutex(lock, 1) >= 0 { Some(guard) } else { None }
Mutex_try_lock_call(t) ==
    /\ kpc[t] = "call"
    /\ kreq[t] = "try_lock"
    /\ klast' = [op |-> "try_lock", uid |-> guard[t]]
    /\ IF guard[t] \in kernel.made /\ kernel.owner[guard[t]] = 0
       THEN /\ kernel' = [kernel EXCEPT !.owner[guard[t]] = t]
            /\ kpc' = [kpc EXCEPT ![t] = "held"]
            /\ UNCHANGED <<kreq, guard>>
       ELSE /\ kernel' = kernel
            /\ kpc' = [kpc EXCEPT ![t] = "idle"]
            /\ kreq' = [kreq EXCEPT ![t] = "none"]
            /\ guard' = [guard EXCEPT ![t] = 0]
    /\ UNCHANGED <<init, done, lock, creators>>
    /\ UNCHANGED <<avars, ucall>>

\* MutexGuard::drop: unsafe { sceKernelUnlockMutex(self.lock, 1) }
MutexGuard_drop(t) ==
    /\ kpc[t] = "held"
    /\ kernel' = IF guard[t] \in kernel.made /\ kernel.owner[guard[t]] = t
                 THEN [kernel EXCEPT !.owner[guard[t]] = 0]
                 ELSE kernel
    /\ klast' = [op |-> "unlock", uid |-> guard[t]]
    /\ kpc' = [kpc EXCEPT ![t] = "idle"]
    /\ kreq' = [kreq EXCEPT ![t] = "none"]
    /\ guard' = [guard EXCEPT ![t] = 0]
    /\ UNCHANGED <<init, done, lock, creators>>
    /\ UNCHANGED <<avars, ucall>>

\* Drop for Mutex: unsafe { sceKernelDeleteMutex(self.lock) }, once no
\* thread is in a call of the Mutex or holds a guard of it.
Mutex_drop ==
    /\ \A t \in Threads : kpc[t] = "idle"
    /\ kernel' = IF lock \in kernel.made
                 THEN [kernel EXCEPT !.made = @ \ {lock}]
                 ELSE kernel
    /\ klast' = [op |-> "delete", uid |-> lock]
    /\ kpc' = [t \in Threads |-> "gone"]
    /\ UNCHANGED <<init, done, lock, kreq, guard, creators>>
    /\ UNCHANGED <<avars, ucall>>

\* The steps of a thread inside a call of the Mutex, and the drop of its guard.
MutexStep(t) ==
    \/ init_lock_cas(t)
    \/ init_lock_create(t)
    \/ init_lock_store(t)
    \/ init_lock_wait(t)
    \/ Mutex_lock_call(t)
    \/ Mutex_try_lock_call(t)
    \/ MutexGuard_drop(t)

MutexNext ==
    \/ \E t \in Threads :
          \/ Mutex_lock(t)
          \/ Mutex_try_lock(t)
          \/ MutexStep(t)
    \/ Mutex_drop

\* Scheduling: a thread inside a call of the Mutex keeps running.
MutexFairness == \A t \in Threads : WF_vars(MutexStep(t))

MutexSpec == Init /\ [][MutexNext]_vars /\ MutexFairness

(***************************************************************************)
(* The functions of src/src/utils.rs, Vitalloc::padded and the name that   *)
(* init_lock builds, called on inputs from the low and the high end of the *)
(* word.                                                                   *)
(***************************************************************************)
UtilAddrs == (0..17) \cup ((Word - 18)..(Word - 1))

UtilAligns == {1, 2, 4, 8, 16}

UtilSizes ==
    {LS, 3129, LA, LA + 1, Word - LA - 1, Word - LA, (Word - LA) + 1, Word - 1}

\* Addresses of Mutex objects (aligned as a struct with an SceUID is).
NameAddrs == { SlotBase(1) + 4 * i : i \in 0..7 }

\* init_lock: the bytes name[15..23] of *b"__rust_mutex_0x00000000\0" after
\* write_hex(ptr, &mut name[15..23]); the other bytes are the same for every
\* Mutex.
mutex_name(ptr) == write_hex(ptr, [j \in 1..8 |-> 48])

Call_align_down(a, k) ==
    /\ ucall' = [NoUCall EXCEPT !.fn = "align_down", !.a = a, !.k = k,
                                !.out = align_down(a, k)]
    /\ UNCHANGED <<avars, kvars>>

Call_align_up(a, k) ==
    /\ ucall' = [NoUCall EXCEPT !.fn = "align_up", !.a = a, !.k = k,
                                !.out = align_up(a, k)]
    /\ UNCHANGED <<avars, kvars>>

\* self.padded(layout, LA::to_usize()) for a layout of the given size.
Call_padded(size) ==
    /\ \E pl \in {padded([size |-> size, align |-> 1], LA)} :
          ucall' = [NoUCall EXCEPT !.fn = "padded", !.a = size, !.k = pl.align,
                                  !.out = pl.size]
    /\ UNCHANGED <<avars, kvars>>

Call_mutex_name(ptr) ==
    /\ ucall' = [NoUCall EXCEPT !.fn = "mutex_name", !.a = ptr,
                                !.name = mutex_name(ptr)]
    /\ UNCHANGED <<avars, kvars>>

UtilNext ==
    \/ \E a \in UtilAddrs, k \in UtilAligns : Call_align_down(a, k)
    \/ \E a \in UtilAddrs, k \in UtilAligns : Call_align_up(a, k)
    \/ \E size \in UtilSizes : Call_padded(size)
    \/ \E ptr \in NameAddrs : Call_mutex_name(ptr)

UtilSpec == Init /\ [][UtilNext]_vars

(***************************************************************************)
(* One heap block on its own (mod hole, section 4.1 of the specification): *)
(* allocate_first_fit and deallocate called on the block at the first slot.*)
(***************************************************************************)
\* The layouts of the specification's alignment scenario.
HoleLayouts ==
    { [size |-> 1,    align |-> 1],
      [size |-> 1,    align |-> 8],
      [size |-> 17,   align |-> 16],
      [size |-> 255,  align |-> 64],
      [size |-> 2047, align |-> 2048] }

\* HeapBlock::new on the region of the first slot.
HoleInit ==
    /\ allocated = [i \in Slots |-> i = 1]
    /\ first_block = <<HeapBlock_new(SlotBase(1))>>
    /\ mutex = FALSE
    /\ pc = [t \in Threads |-> "idle"]
    /\ req = [t \in Threads |-> NoReq]
    /\ live = {}
    /\ last = NoLast
    /\ nops = 0
    /\ Mutex_new
    /\ ucall = NoUCall

\* block.allocate_first_fit(layout), the layout normalised as alloc does.
HoleAllocate(layout) ==
    /\ nops < MaxOps
    /\ \E bl \in {block_layout(layout)} :
       \E r \in {allocate_first_fit(first_block[1], bl)} :
          /\ first_block' = [first_block EXCEPT ![1].holes = r.holes]
          /\ live' = IF r.ok
                     THEN live \cup {Allocation(r.ptr, layout, FALSE, NoLayout)}
                     ELSE live
    /\ nops' = nops + 1
    /\ UNCHANGED <<allocated, mutex, pc, req, last, kvars, ucall>>

\* block.deallocate(ptr, size) for a live allocation of the block, with the
\* size it was allocated with.
HoleDeallocate(a) ==
    /\ nops < MaxOps
    /\ a \in live
    /\ \E bl \in {block_layout([size |-> a.size, align |-> a.align])} :
          first_block' =
              [first_block EXCEPT ![1].holes = deallocate(@, a.ptr, bl.size)]
    /\ live' = live \ {a}
    /\ nops' = nops + 1
    /\ UNCHANGED <<allocated, mutex, pc, req, last, kvars, ucall>>

HoleNext ==
    \/ \E layout \in HoleLayouts : HoleAllocate(layout)
    \/ \E a \in live : HoleDeallocate(a)

HoleSpec == HoleInit /\ [][HoleNext]_vars

(***************************************************************************)
(* Properties                                                              *)
(***************************************************************************)
InCS(t) == pc[t] \in {"cs", "grow"}

Disjoint(a, b) == a.ptr + a.size <= b.ptr \/ b.ptr + b.size <= a.ptr

InBlock(ptr, b) == b.base <= ptr /\ ptr < b.base + BS

BlockEmpty(b) == \A a \in live : ~InBlock(a.ptr, b)

SlotInUse(ptr) == \E i \in Slots : SlotBase(i) = ptr /\ allocated[i]

\* C1: a dealloc takes the path (large or small) that the alloc of the same
\* allocation took.
RoutingSymmetry == last.op = "dealloc" => last.large = last.a.large

\* C2: no two live allocations overlap.
NoOverlap == \A a, b \in live : a # b => Disjoint(a, b)

\* C2 witness: two live allocations share a heap block and a third one is a
\* large allocation.
NoOverlapWitness ==
    \E a, b, c \in live :
        /\ a # b /\ ~a.large /\ ~b.large /\ c.large
        /\ \E i \in 1..Len(first_block) :
              InBlock(a.ptr, first_block[i]) /\ InBlock(b.ptr, first_block[i])

\* C3: after a dealloc no block of the chain is empty unless it is the only
\* block left (an empty block that is not the last one has been unlinked and
\* given back).
Reclamation ==
    last.op = "dealloc" =>
        \A i \in 1..Len(first_block) :
            BlockEmpty(first_block[i]) => Len(first_block) = 1

\* C4: every live pointer is aligned to the alignment of its layout.
Alignment == \A a \in live : a.ptr % a.align = 0

\* C5: the dealloc of an allocation of size >= LS makes exactly one backing
\* dealloc, with the padded layout the alloc passed to the backing allocator,
\* and leaves the backing region free.
LargeRoundTrip ==
    (last.op = "dealloc" /\ last.layout.size >= LS) =>
        /\ last.a.balign = LA
        /\ last.a.bsize >= last.layout.size
        /\ last.bcalls =
              <<BCall("dealloc", [size |-> last.a.bsize, align |-> last.a.balign],
                      last.ptr)>>
        /\ ~SlotInUse(last.ptr)

MutualExclusion ==
    /\ \A t, u \in Threads : InCS(t) /\ InCS(u) => t = u
    /\ mutex <=> \E t \in Threads : InCS(t)
    /\ \A t \in Threads : pc[t] = "grow" => req[t].nb = Len(first_block)

\* C7 witness: a thread is growing the heap while another one waits in lock().
MutualExclusionWitness ==
    \E t, u \in Threads : pc[t] = "grow" /\ pc[u] = "lock" /\ Len(first_block) > 0

\* C8: the mutex is free whenever no call holds it, a call that holds the
\* lock returns, and a thread waiting in lock() gets the lock.
LockRelease ==
    /\ []((\A t \in Threads : ~InCS(t)) => ~mutex)
    /\ \A t \in Threads : InCS(t) ~> (pc[t] = "idle")
    /\ \A t \in Threads : (pc[t] = "lock") ~> InCS(t)

\* C8 witness: an alloc has returned null on the fresh block failure path,
\* the mutex is free and another thread is waiting in lock().
LockReleaseWitness ==
    /\ last.exit = "fresh_fail" /\ ~mutex
    /\ \E t, u \in Threads : pc[t] = "idle" /\ pc[u] = "lock"

\* C9: a small-path alloc that found no fitting block asks the backing
\* allocator for {BS, BA} and nothing else; a large-path alloc asks for the
\* caller's size padded to a multiple of LA, aligned to LA.
HeapGrowthLayout ==
    last.op = "alloc" =>
        /\ last.exit \in {"backing_fail", "fresh_fail", "end"} =>
              /\ Len(last.bcalls) = 1
              /\ last.bcalls[1] = BCall("alloc", [size |-> BS, align |-> BA],
                                        last.bcalls[1].ptr)
        /\ last.exit = "fit" => last.bcalls = <<>>
        /\ last.exit = "large" =>
              /\ Len(last.bcalls) = 1
              /\ last.bcalls[1].op = "alloc"
              /\ last.bcalls[1].align = LA
              /\ last.bcalls[1].size % LA = 0
              /\ last.bcalls[1].size >= last.layout.size
              /\ last.bcalls[1].size - last.layout.size < LA

\* C9 witness: the heap has grown for a request whose own layout is not {BS, BA}.
HeapGrowthLayoutWitness ==
    /\ last.exit = "end"
    /\ last.layout.size < BS /\ last.layout.align < BA
    /\ Len(first_block) = 2

\* C10: a small-path alloc for which the backing allocator supplied a new
\* block returns a pointer.
FreshBlockFits ==
    (/\ last.op = "alloc" /\ ~last.large
     /\ Len(last.bcalls) = 1 /\ last.bcalls[1].ptr # Null)
        => last.ptr # Null

\* A thread completes its call in this step.
Completes(t) == InCS(t) /\ pc'[t] = "idle"

\* C11: an alloc whose backing call fails (on the large path, or while
\* growing the heap) returns null and releases the lock; the chain, every
\* hole list, the live allocations and the backing regions are what they were
\* before the call, so later calls find the state the failing call found.
AllocationFailure ==
    [][\A t \in Threads :
          (/\ Completes(t)
           /\ last'.op = "alloc"
           /\ Len(last'.bcalls) = 1 /\ last'.bcalls[1].ptr = Null)
          => /\ last'.ptr = Null
             /\ first_block' = first_block
             /\ live' = live
             /\ allocated' = allocated
             /\ ~mutex']_vars

\* C11 witness: growing the heap has just failed with every backing slot in
\* use, while allocations are live in the blocks of the chain.
AllocationFailureWitness ==
    /\ last.op = "alloc" /\ last.exit = "backing_fail" /\ last.ptr = Null
    /\ \A i \in Slots : allocated[i]
    /\ Len(first_block) > 0
    /\ \E a \in live : ~a.large

\* The backing regions in use (one slot each for the layouts at hand).
SlotsInUse == Cardinality({ i \in Slots : allocated[i] })

\* C12: whenever no call is in progress, the backing regions in use are as
\* many as the blocks of the chain plus the live large allocations.
SlotAccounting ==
    (\A t \in Threads : ~InCS(t)) =>
        SlotsInUse = Len(first_block) + Cardinality({ a \in live : a.large })

\* Block i of the chain has a hole that fits the layout.
BlockFits(chain, i, layout) == FirstFit(chain[i].holes, layout) # 0

\* C13: a small alloc that makes no backing call is served by the first block
\* of the chain, from the head, that has a fit, and the chain keeps its
\* blocks; a small alloc that makes a backing call makes exactly one, makes
\* it only when no block of the chain has a fit, and when it returns a
\* pointer the chain is the old chain followed by the one block that serves it.
FirstFitAcrossBlocks ==
    [][\A t \in Threads :
          (Completes(t) /\ req[t].op = "alloc" /\ req[t].layout.size < LS) =>
             LET bl == block_layout(req[t].layout)
                 n  == Len(first_block)
             IN  /\ last'.bcalls = <<>> =>
                       /\ Len(first_block') = n
                       /\ \E i \in 1..n :
                             /\ InBlock(last'.ptr, first_block[i])
                             /\ BlockFits(first_block, i, bl)
                             /\ \A j \in 1..(i - 1) : ~BlockFits(first_block, j, bl)
                             /\ \A j \in (1..n) \ {i} :
                                   first_block'[j] = first_block[j]
                 /\ last'.bcalls # <<>> =>
                       /\ Len(last'.bcalls) = 1
                       /\ \A i \in 1..n : ~BlockFits(first_block, i, bl)
                       /\ last'.ptr = Null => first_block' = first_block
                       /\ last'.ptr # Null =>
                             /\ Len(first_block') = n + 1
                             /\ SubSeq(first_block', 1, n) = first_block
                             /\ first_block'[n + 1].base = last'.bcalls[1].ptr
                             /\ InBlock(last'.ptr, first_block'[n + 1])]_vars

\* C13 witness: a request has just been served by the second block of the
\* chain, the head having no fit for it although it has a hole left.
FirstFitAcrossBlocksWitness ==
    /\ last.op = "alloc" /\ last.exit = "fit"
    /\ Len(first_block) = 2
    /\ InBlock(last.ptr, first_block[2])
    /\ first_block[1].holes # <<>>
    /\ ~BlockFits(first_block, 1, block_layout(last.layout))

\* The allocation lies in a block that is linked in the chain.
Contained(a) == \E i \in 1..Len(first_block) : InBlock(a.ptr, first_block[i])

\* C14: every live allocation that alloc served on the small path lies in
\* the address range of a block that is linked in the chain.
Containment == \A a \in live : ~a.large => Contained(a)

\* C14 witness: a small dealloc has just completed, the chain has two blocks
\* and each of them holds a live allocation.
ContainmentWitness ==
    /\ last.op = "dealloc" /\ ~last.a.large
    /\ Len(first_block) = 2
    /\ \A i \in 1..2 : \E a \in live : ~a.large /\ InBlock(a.ptr, first_block[i])

\* The block is one maximal hole, as HeapBlock::new built it.
SingleMaximalHole(b) == b.holes = HeapBlock_new(b.base).holes

\* C15: after the dealloc of a small-path allocation, a block that holds no
\* live allocation is a single maximal hole again (so that the next alloc of
\* the same layout gets the address the first one got).
SmallRoundTrip ==
    (last.op = "dealloc" /\ ~last.a.large) =>
        \A i \in 1..Len(first_block) :
            BlockEmpty(first_block[i]) => SingleMaximalHole(first_block[i])

LargePathFrame ==
    [][\A t \in Threads :
          (/\ Completes(t)
           /\ \/ req[t].op = "alloc" /\ req[t].layout.size >= LS
              \/ req[t].op = "dealloc" /\ req[t].layout.size > LS)
          => /\ first_block' = first_block
             /\ Len(last'.bcalls) = 1
             /\ last'.bcalls[1].op = req[t].op]_vars

\* C17 witness: a large dealloc has just completed while the chain holds a
\* block with a live allocation in it.
LargePathFrameWitness ==
    /\ last.op = "dealloc" /\ last.large /\ last.layout.size > LS
    /\ Len(first_block) > 0
    /\ ~SingleMaximalHole(first_block[1])
    /\ \E a \in live : ~a.large

\* The thread is in the lock() of a call made from inside the backing
\* allocator, itself called by a call of the same thread that holds the lock.
Reentered(t) == pc[t] = "lock" /\ req[t].outer # "none"

\* C18: a thread that calls the front-end from inside the backing allocator
\* stays in lock() for ever: the mutex its outer call holds is never freed,
\* and from then on no thread gets the lock.
NonReentrancy ==
    [][\A t \in Threads :
          Reentered(t) =>
             /\ mutex /\ mutex'
             /\ pc'[t] = "lock" /\ req'[t].outer # "none"
             /\ \A u \in Threads : ~InCS(u) /\ pc'[u] \notin {"cs", "grow"}]_vars

\* C18 witness: a thread is blocked in the lock() of its inner call, made
\* while growing the heap, and the other thread waits in lock() as well.
NonReentrancyWitness ==
    \E t, u \in Threads :
        /\ t # u
        /\ Reentered(t) /\ req[t].outer = "grow"
        /\ pc[u] = "lock" /\ ~Reentered(u)
        /\ mutex

\* The thread is past init_lock: it is about to call the kernel with the
\* identifier init_lock returned, or it holds a guard.
PastInit(t) == kpc[t] \in {"call", "held"}

\* C19: at most one thread calls sceKernelCreateMutex and at most one kernel
\* mutex is created; a thread is past init_lock only when the creation has
\* been made and done is true; once a thread is in init_lock the creation is
\* made, and a thread that waits for done gets past init_lock.
LazyCreation ==
    /\ [](Cardinality(creators) <= 1 /\ Cardinality(kernel.made) <= 1)
    /\ [](\A t \in Threads :
             PastInit(t) =>
                /\ done
                /\ Cardinality(creators) = 1
                /\ \A u \in Threads : kpc[u] \notin {"create", "store"})
    /\ \A t \in Threads : (kpc[t] = "cas") ~> (Cardinality(creators) = 1)
    /\ \A t \in Threads : (kpc[t] = "wait") ~> PastInit(t)

\* C19 witness: a thread has created the kernel mutex and has not stored done
\* yet, while another thread, which lost the compare-and-swap, waits for it.
LazyCreationWitness ==
    \E t, u \in Threads :
        /\ kpc[t] = "store" /\ t \in creators
        /\ kpc[u] = "wait" /\ kreq[u] = "lock"
        /\ ~done

\* C20: every identifier the Mutex passes to the kernel to lock, try to lock
\* or unlock names the mutex that init_lock created, the delete of the Mutex
\* leaves no kernel mutex behind, a thread that holds a guard owns the
\* created kernel mutex, and no two threads hold guards at once.
KernelHandleIdentity ==
    /\ klast.op \in {"lock", "try_lock", "unlock"} => klast.uid \in kernel.made
    /\ klast.op = "delete" => kernel.made = {}
    /\ \A t \in Threads :
          kpc[t] = "held" =>
             guard[t] \in kernel.made /\ kernel.owner[guard[t]] = t
    /\ \A t, u \in Threads : kpc[t] = "held" /\ kpc[u] = "held" => t = u

\* C21: the name init_lock builds for a Mutex is the name of no Mutex at
\* another address.
MutexNaming ==
    ucall.fn = "mutex_name" =>
        \A q \in NameAddrs : q # ucall.a => mutex_name(q) # ucall.name

\* C22: the layout padded() forwards for a large-path size has alignment LA
\* and, for its size, the least multiple of LA that is not below the size
\* asked for.
LargePadding ==
    ucall.fn = "padded" =>
        /\ ucall.k = LA
        /\ ucall.out % LA = 0
        /\ ucall.out >= ucall.a
        /\ ucall.out - ucall.a < LA

ChainOrder ==
    [][/\ Len(first_block') >= Len(first_block)
       /\ Len(first_block') <= Len(first_block) + 1
       /\ \A i \in 1..Len(first_block) :
             first_block'[i].base = first_block[i].base]_vars

\* C24 witness: a block has just been linked behind a block of a higher
\* address (its region was free again after a large dealloc).
ChainOrderWitness ==
    /\ last.op = "alloc" /\ last.exit = "end"
    /\ Len(first_block) = 2
    /\ first_block[1].base > first_block[2].base
    /\ InBlock(last.ptr, first_block[2])

\* C25: in every block the holes are in strictly increasing address order,
\* no hole reaches into the next one, and no hole ends where the next one
\* begins.
HoleListWellFormed ==
    \A b \in 1..Len(first_block) :
        \A i \in 1..(Len(first_block[b].holes) - 1) :
            first_block[b].holes[i].addr + first_block[b].holes[i].size
                < first_block[b].holes[i + 1].addr

\* C25 witness: after two allocations and their deallocations the block is
\* one maximal hole again.
HoleListWellFormedWitness ==
    /\ nops >= 4 /\ live = {}
    /\ Len(first_block) = 1
    /\ SingleMaximalHole(first_block[1])

=============================================================================
